---- MODULE Spec2Model ----
(***************************************************************************)
(* Model of pval.cpp (DADA abundance and singleton p-values).              *)
(*                                                                         *)
(* The doubles of the source are modelled as exact rationals               *)
(* [num |-> Int, den |-> positive Int] kept in lowest terms, so that       *)
(* equality of values is structural equality.  Rounding is therefore not   *)
(* modelled; every value the model handles is small enough to be exact.    *)
(* Array indices are those of the source (0-based functions); the growing  *)
(* std::vector objects are sequences (1-based).                            *)
(***************************************************************************)
EXTENDS Integers, Sequences, FiniteSets, TLC

\* ---------------------------------------------------------------- bounds
MaxD == 2          \* largest maxD handed to getCDF
MaxSeqLen == 3     \* largest nnt[0]+nnt[1]+nnt[2]+nnt[3]
MaxSubs == 2       \* longest substitution list of a Fam
MaxReads == 3      \* largest fam->reads
MaxLen == 4        \* longest lookup table drawn for get_pS alone

NERRS == 12

\* ------------------------------------------------- double arithmetic
Abs(x) == IF x < 0 THEN -x ELSE x

RECURSIVE GCD(_, _)
GCD(a, b) == IF b = 0 THEN a ELSE GCD(b, a % b)

Rat(n, d) ==
  LET s == IF d < 0 THEN -1 ELSE 1
      g == GCD(Abs(n), Abs(d))
  IN  [num |-> (s * n) \div g, den |-> (s * d) \div g]

Zero == [num |-> 0, den |-> 1]
One == [num |-> 1, den |-> 1]
FromInt(k) == [num |-> k, den |-> 1]

\* element i of a C array or std::vector kept as a sequence
At(seq, i) == seq[i + 1]

\* a null pointer, and the content of a variable not yet assigned
NULL == <<>>
NoValue == [num |-> 0, den |-> 0]

LCM(a, b) == (a \div GCD(a, b)) * b

RAdd(x, y) ==
  LET l == LCM(x.den, y.den)
  IN  Rat(x.num * (l \div x.den) + y.num * (l \div y.den), l)

RSub(x, y) == RAdd(x, [num |-> -y.num, den |-> y.den])

RMul(x, y) ==
  LET g1 == GCD(Abs(x.num), y.den)
      g2 == GCD(Abs(y.num), x.den)
  IN  IF x.num = 0 \/ y.num = 0 THEN Zero
      ELSE [num |-> (x.num \div g1) * (y.num \div g2),
            den |-> (x.den \div g2) * (y.den \div g1)]

\* y is never zero where the model divides
RDiv(x, y) ==
  IF y.num < 0 THEN RMul(x, [num |-> -y.den, den |-> -y.num])
  ELSE RMul(x, [num |-> y.den, den |-> y.num])

RLt(x, y) ==
  IF x.den = y.den THEN x.num < y.num
  ELSE LET l == LCM(x.den, y.den)
       IN  x.num * (l \div x.den) < y.num * (l \div y.den)

RLe(x, y) == x = y \/ RLt(x, y)

RECURSIVE RPow(_, _)
RPow(x, k) == IF k <= 0 THEN One ELSE RMul(x, RPow(x, k - 1))

\* ---------------------------------------------------------------- state
VARIABLES
  \* get_pA / compute_lambda
  fam,        \* Fam:  [reads, lambda, sub];  sub is NULL or <<[nsubs, nt0, nt1]>>
  bi,         \* Bi:   [reads]
  t,          \* compute_lambda's t[4][4]
  self,       \* compute_lambda's self
  lambda,     \* value returned by compute_lambda (NoValue before the call)
  pA,         \* value returned by get_pA (NoValue before the call)
  out,        \* diagnostics printed so far
  \* getCDF
  err, nnt, maxD,      \* arguments
  errs, cdfSelf,       \* locals errs[NERRS] and self
  d, nerr, first,      \* partition iteration
  probs,               \* std::vector<Prob>, in push_back order
  comps,               \* history: the nerr in force at each push_back
  ps, cdf,             \* output vectors
  pc,                  \* position inside getCDF
  \* get_pS
  b,                   \* B: [nlam, lams, cdf]
  flam,                \* fam->lambda handed to get_pS
  ifirst, ilast,       \* search bounds
  pS,                  \* value returned by get_pS (NoValue before the return)
  pspc                 \* position inside get_pS

famVars == <<fam, bi, t, self, lambda, pA, out>>
cdfVars == <<err, nnt, maxD, errs, cdfSelf, d, nerr, first, probs, comps, ps, cdf, pc>>
psVars == <<b, flam, ifirst, ilast, pS, pspc>>
vars == <<famVars, cdfVars, psVars>>

\* ------------------------------------------------------------ error models
Mat(rows) == [i \in 0..3 |-> [j \in 0..3 |-> rows[i + 1][j + 1]]]

q0 == Zero
q1 == Rat(1, 4)
q2 == Rat(1, 2)
q3 == Rat(3, 4)
q6 == Rat(1, 6)

\* one substitution direction per origin, each with probability 1/4
ErrTransitions ==
  Mat(<< <<q3, q0, q1, q0>>,
         <<q0, q3, q0, q1>>,
         <<q1, q0, q3, q0>>,
         <<q0, q1, q0, q3>> >>)

\* a different mismatch probability for every origin
ErrMixed ==
  Mat(<< <<q2, q1, q1, q0>>,
         <<q0, q3, q0, q1>>,
         <<q0, q0, One, q0>>,
         <<q1, q0, q0, q3>> >>)

\* no errors at all
ErrNone ==
  Mat(<< <<One, q0, q0, q0>>,
         <<q0, One, q0, q0>>,
         <<q0, q0, One, q0>>,
         <<q0, q0, q0, One>> >>)

\* A->C is more probable than A->A
ErrSkewed ==
  Mat(<< <<q1, q2, q1, q0>>,
         <<q0, q3, q0, q1>>,
         <<q1, q0, q3, q0>>,
         <<q0, q1, q0, q3>> >>)

\* every substitution has probability 1/6
ErrUniform ==
  Mat(<< <<q2, q6, q6, q6>>,
         <<q6, q2, q6, q6>>,
         <<q6, q6, q2, q6>>,
         <<q6, q6, q6, q2>> >>)

ErrModels == {ErrTransitions, ErrMixed, ErrNone, ErrUniform, ErrSkewed}
TMatrices == ErrModels

\* ------------------------------------------------------------ calc_pA
\* The value is a quotient of Rcpp::ppois and 1 - exp(-E_reads); both are
\* external numeric primitives, so the result is kept as the term of its
\* arguments.
calc_pA(reads, E_reads) ==
  [fn |-> "calc_pA", reads |-> reads, E_reads |-> E_reads]

\* ------------------------------------------------------------ get_pA
get_pA_subFirst(f, bb) ==
  IF f.sub = NULL THEN Zero
  ELSE IF f.reads < 1 THEN One
  ELSE IF f.reads = 1 THEN One
  ELSE IF f.sub[1].nsubs = 0 THEN One
  ELSE IF f.lambda = Zero THEN Zero
  ELSE calc_pA(f.reads, RMul(f.lambda, FromInt(bb.reads)))

get_pA_absentOne(f, bb) ==
  IF f.reads < 1 THEN One
  ELSE IF f.reads = 1 THEN One
  ELSE IF f.sub = NULL THEN One
  ELSE IF f.sub[1].nsubs = 0 THEN One
  ELSE IF f.lambda = Zero THEN Zero
  ELSE calc_pA(f.reads, RMul(f.lambda, FromInt(bb.reads)))

get_pA(f, bb) ==
  IF f.reads < 1 THEN One
  ELSE IF f.reads = 1 THEN One
  ELSE IF f.sub = NULL THEN Zero
  ELSE IF f.sub[1].nsubs = 0 THEN One
  ELSE IF f.lambda = Zero THEN Zero
  ELSE calc_pA(f.reads, RMul(f.lambda, FromInt(bb.reads)))

get_pA_out(f) ==
  IF f.reads < 1 THEN {"Warning: No or negative reads in fam."} ELSE {}

\* ------------------------------------------------------------ compute_lambda
RECURSIVE lambda_loop(_, _, _, _)
lambda_loop(sub, tt, lam, i) ==
  IF i >= sub.nsubs THEN lam
  ELSE LET nti0 == sub.nt0[i + 1] - 1
           nti1 == sub.nt1[i + 1] - 1
       IN  lambda_loop(sub, tt, RDiv(RMul(lam, tt[nti0][nti1]), tt[nti0][nti0]), i + 1)

compute_lambda_clamped(sub, slf, tt) ==
  IF sub = NULL THEN Zero
  ELSE LET lam == lambda_loop(sub[1], tt, slf, 0)
       IN  IF RLt(One, lam) THEN One ELSE IF RLt(lam, Zero) THEN Zero ELSE lam

compute_lambda(sub, slf, tt) ==
  IF sub = NULL THEN Zero
  ELSE lambda_loop(sub[1], tt, slf, 0)

compute_lambda_out(sub, slf, tt) ==
  IF sub = NULL THEN {}
  ELSE LET lam == lambda_loop(sub[1], tt, slf, 0)
       IN  (IF RLt(lam, Zero) \/ RLt(One, lam)
              THEN {"ERROR: OVERUNDERFLOW OF LAMBDA"} ELSE {})
           \cup
           (IF lam = Zero THEN {"COMPUTE_LAMBDA: ZEROFLOW OF LAMBDA"} ELSE {})

\* ------------------------------------------------------------ Fam inputs
SubPairs == {<<1, 2>>, <<1, 3>>, <<2, 4>>, <<3, 1>>}

MkSub(pairs) ==
  <<[nsubs |-> Len(pairs),
   nt0 |-> [i \in 1..Len(pairs) |-> pairs[i][1]],
   nt1 |-> [i \in 1..Len(pairs) |-> pairs[i][2]]]>>

Subs ==
  {NULL} \cup
  UNION {{MkSub(s) : s \in [1..k -> SubPairs]} : k \in 0..MaxSubs}

LambdaChoices == {Zero, q1, One}
SelfChoices == {One, q2}
BiReadsChoices == {1, 5}

CallFamInit ==
  /\ fam \in [reads : -1..MaxReads, lambda : LambdaChoices, sub : Subs]
  /\ bi \in [reads : BiReadsChoices]
  /\ t \in TMatrices
  /\ self \in SelfChoices
  /\ lambda = NoValue
  /\ pA = NoValue
  /\ out = {}

CallFamIdle ==
  /\ fam = [reads |-> 1, lambda |-> Zero, sub |-> NULL]
  /\ bi = [reads |-> 1]
  /\ t = ErrNone
  /\ self = One
  /\ lambda = NoValue
  /\ pA = NoValue
  /\ out = {}

GetPA ==
  /\ pA = NoValue
  /\ pA' = get_pA(fam, bi)
  /\ out' = out \cup get_pA_out(fam)
  /\ UNCHANGED <<fam, bi, t, self, lambda, cdfVars, psVars>>

ComputeLambda ==
  /\ lambda = NoValue
  /\ lambda' = compute_lambda(fam.sub, self, t)
  /\ out' = out \cup compute_lambda_out(fam.sub, self, t)
  /\ UNCHANGED <<fam, bi, t, self, pA, cdfVars, psVars>>

FamNext == GetPA \/ ComputeLambda

\* ------------------------------------------------------------ get_pS
\* lams and cdf of B are sequences (see At)

\* one iteration of the while loop: the new <<ifirst, ilast>>
search_step_ge(bb, lam, lo, hi) ==
  LET imid == (lo + hi) \div 2
  IN  IF RLe(lam, At(bb.lams, imid)) THEN <<imid, hi>> ELSE <<lo, imid>>

search_step(bb, lam, lo, hi) ==
  LET imid == (lo + hi) \div 2
  IN  IF RLt(lam, At(bb.lams, imid)) THEN <<imid, hi>> ELSE <<lo, imid>>

\* entry of get_pS up to the start of the search
PSCall ==
  /\ pspc = "call"
  /\ IF b.nlam < 1
       THEN \* lams[0] and lams[nlam-1] lie outside the arrays: any value may be read
            /\ pspc' = "oob"
            /\ pS' \in {Zero, One}
            /\ UNCHANGED <<ifirst, ilast>>
     ELSE IF RLe(At(b.lams, 0), flam)
       THEN /\ pS' = One
            /\ pspc' = "done"
            /\ UNCHANGED <<ifirst, ilast>>
     ELSE IF RLe(flam, At(b.lams, b.nlam - 1))
       THEN /\ pS' = RSub(One, At(b.cdf, b.nlam - 1))
            /\ pspc' = "done"
            /\ UNCHANGED <<ifirst, ilast>>
     ELSE /\ ifirst' = 0
          /\ ilast' = b.nlam - 1
          /\ pspc' = "while"
          /\ UNCHANGED pS
  /\ UNCHANGED <<b, flam, famVars, cdfVars>>

PSIterate ==
  /\ pspc = "while"
  /\ ilast - ifirst > 1
  /\ LET nx == search_step(b, flam, ifirst, ilast)
     IN  /\ ifirst' = nx[1]
         /\ ilast' = nx[2]
  /\ UNCHANGED <<b, flam, pS, pspc, famVars, cdfVars>>

PSReturn ==
  /\ pspc = "while"
  /\ ~(ilast - ifirst > 1)
  /\ pS' = RSub(One, At(b.cdf, ifirst))
  /\ pspc' = "done"
  /\ UNCHANGED <<b, flam, ifirst, ilast, famVars, cdfVars>>

PSNext == PSCall \/ PSIterate \/ PSReturn

\* lookup tables: lams non-increasing, cdf increasing with the index
LamVals == {Rat(k, 8) : k \in 0..8}
TableVals == {Rat(k, 4) : k \in 0..4}

NonIncreasing(seq) ==
  \A i \in 1..(Len(seq) - 1) : RLe(seq[i + 1], seq[i])

MkTable(lams) ==
  [nlam |-> Len(lams),
   lams |-> lams,
   cdf |-> [i \in 1..Len(lams) |-> Rat(i, Len(lams) + 1)]]

Tables ==
  UNION {{MkTable(l) : l \in {x \in [1..k -> TableVals] : NonIncreasing(x)}}
         : k \in 0..MaxLen}

CallPSInit ==
  /\ b \in Tables
  /\ flam \in LamVals
  /\ ifirst = 0
  /\ ilast = 0
  /\ pS = NoValue
  /\ pspc = "call"

CallPSIdle ==
  /\ b = MkTable(<<>>)
  /\ flam = Zero
  /\ ifirst = 0
  /\ ilast = 0
  /\ pS = NoValue
  /\ pspc = "idle"

\* ------------------------------------------------------------ getCDF
\* errs[k] as first copied: the k-th off-diagonal entry of err, row by row
err_flat(e, k) ==
  LET i == k \div 3
      r == k % 3
      j == IF r < i THEN r ELSE r + 1
  IN  e[i][j]

\* pa, pc, pg, pt
nt_err(e, i) ==
  RAdd(RAdd(err_flat(e, 3 * i), err_flat(e, 3 * i + 1)), err_flat(e, 3 * i + 2))

self_trans(e, nn) ==
  RMul(RMul(RPow(RSub(One, nt_err(e, 0)), nn[0]),
            RPow(RSub(One, nt_err(e, 1)), nn[1])),
       RMul(RPow(RSub(One, nt_err(e, 2)), nn[2]),
            RPow(RSub(One, nt_err(e, 3)), nn[3])))

relative_errs(e) ==
  [k \in 0..(NERRS - 1) |-> RDiv(err_flat(e, k), RSub(One, nt_err(e, k \div 3)))]

\* nerr is kept as a tuple: slot i of the source is At(nerr, i)
init_partition(dd) == <<0, 0, 0, 0, 0, 0, 0, 0, 0, 0, 0, dd>>

\* one pass of the body of "for(j=0;j<nerr[i];j++)"
err_event_noDeplete(acc, es, i, j) ==
  [p |-> RMul(acc.p, es[i]),
   n |-> RDiv(RMul(acc.n, FromInt(acc.nopen[i \div 3])), FromInt(j + 1)),
   nopen |-> acc.nopen]

err_event(acc, es, i, j) ==
  [p |-> RMul(acc.p, es[i]),
   n |-> RDiv(RMul(acc.n, FromInt(acc.nopen[i \div 3])), FromInt(j + 1)),
   nopen |-> [acc.nopen EXCEPT ![i \div 3] = @ - 1]]

RECURSIVE prob_loop(_, _, _, _, _)
prob_loop(acc, es, ne, i, j) ==
  IF i >= NERRS THEN acc
  ELSE IF j >= At(ne, i) THEN prob_loop(acc, es, ne, i + 1, 0)
  ELSE prob_loop(err_event(acc, es, i, j), es, ne, i, j + 1)

\* the Prob(p,n) pushed for the partition ne
calc_prob(slf, es, nn, ne) ==
  LET r == prob_loop([p |-> slf, n |-> One, nopen |-> nn], es, ne, 0, 0)
  IN  [first |-> r.p, second |-> r.n]

\* "if(nerr[0] >= d) { break; }"
all_in_first_strict(ne, dd) == At(ne, 0) > dd

all_in_first(ne, dd) == At(ne, 0) >= dd

\* the scan "for(first=1;first<NERRS;first++)": the index it breaks at,
\* or -1 when it arrives at NERRS-1 without a count to take from
RECURSIVE carry_scan(_, _)
carry_scan(ne, f) ==
  IF At(ne, f) > 0 THEN f
  ELSE IF f = NERRS - 1 THEN -1
  ELSE carry_scan(ne, f + 1)

\* "Advance to next partition": the new nerr and first, and whether the
\* error branch was taken
advance_dropStore(ne, f) ==
  IF f > 0
    THEN [nerr |-> [ne EXCEPT ![f + 1] = @ - 1, ![f] = @ + 1],
          first |-> f - 1, failed |-> FALSE]
  ELSE LET cleared == [ne EXCEPT ![1] = 0]
           g == carry_scan(cleared, 1)
       IN  IF g = -1
             THEN [nerr |-> cleared, first |-> NERRS - 1, failed |-> TRUE]
           ELSE [nerr |-> [[cleared EXCEPT ![g + 1] = @ - 1] EXCEPT ![g] = @ + 1],
                 first |-> g - 1, failed |-> FALSE]

advance(ne, f) ==
  IF f > 0
    THEN [nerr |-> [ne EXCEPT ![f + 1] = @ - 1, ![f] = @ + 1],
          first |-> f - 1, failed |-> FALSE]
  ELSE LET store == At(ne, 0)
           cleared == [ne EXCEPT ![1] = 0]
           g == carry_scan(cleared, 1)
       IN  IF g = -1
             THEN [nerr |-> cleared, first |-> NERRS - 1, failed |-> TRUE]
           ELSE [nerr |-> [[cleared EXCEPT ![g + 1] = @ - 1]
                             EXCEPT ![g] = @ + (store + 1)],
                 first |-> g - 1, failed |-> FALSE]

\* operator< of std::pair<double,double>
ProbLt(x, y) ==
  \/ RLt(x.first, y.first)
  \/ (x.first = y.first /\ RLt(x.second, y.second))

\* the sorted arrangement of pr, decreasing (reverse iterators) or increasing:
\* every element is preceded by exactly the elements that compare in front
\* of it (equal pairs are adjacent and indistinguishable, so the arrangement
\* is unique)
arrange(reversed, pr) ==
  LET n == Len(pr)
      V == {pr[i] : i \in 1..n}
      \* <<value, number of elements in front of its run, length of its run>>
      Runs == {<<v, Cardinality({k \in 1..n : IF reversed THEN ProbLt(v, pr[k])
                                                ELSE ProbLt(pr[k], v)}),
                    Cardinality({k \in 1..n : pr[k] = v})>> : v \in V}
      Place(R) ==
        SubSeq([i \in 1..n |-> (CHOOSE r \in R : r[2] < i /\ i <= r[2] + r[3])[1]], 1, n)
  IN  CHOOSE s \in {Place(R) : R \in {Runs}} : TRUE

\* std::sort(probs.rbegin(), probs.rend()): decreasing order of operator<
sort_probs_ascending(pr) == arrange(FALSE, pr)

sort_probs(pr) == arrange(TRUE, pr)

\* the term added to cum for one Prob
contribution_noMultiplicity(prob) == prob.first

contribution(prob) == RMul(prob.first, prob.second)

\* the values cum takes in "for(index=0;index < probs.size();index++)" over
\* the entries lo..hi, starting from cum; the additions are made in index
\* order, the range is only split to keep the evaluation shallow
RECURSIVE accumulate(_, _, _, _)
accumulate(pr, lo, hi, cum) ==
  IF lo > hi THEN <<>>
  ELSE IF lo = hi THEN <<RAdd(cum, contribution(At(pr, lo)))>>
  ELSE LET mid == (lo + hi) \div 2
           left == accumulate(pr, lo, mid, cum)
       IN  left \o accumulate(pr, mid + 1, hi, left[Len(left)])

RECURSIVE max_err_loop(_, _, _)
max_err_loop(es, i, mx) ==
  IF i >= 12 THEN mx
  ELSE max_err_loop(es, i + 1, IF RLt(mx, es[i]) THEN es[i] ELSE mx)

min_p_of(es, mD) == RPow(max_err_loop(es, 0, Zero), mD + 1)

\* the index the truncation loop stops at (sorted[i].first is ps[i])
trunc_index(sorted, min_p) ==
  LET hits == {i \in 0..(Len(sorted) - 1) : RLe(At(sorted, i).first, min_p)}
  IN  IF hits = {} THEN Len(sorted)
      ELSE CHOOSE i \in hits : \A j \in hits : i <= j

\* lines 99-121: flatten err, self-transition probability, relative errs
CDFSetup ==
  /\ pc = "entry"
  /\ cdfSelf' = self_trans(err, nnt)
  /\ errs' = relative_errs(err)
  /\ d' = 0
  /\ pc' = "for_d"
  /\ UNCHANGED <<err, nnt, maxD, nerr, first, probs, comps, ps, cdf, famVars, psVars>>

\* "for(d=0;d<=maxD;d++)": test, and the partition initialised for d
CDFForD ==
  /\ pc = "for_d"
  /\ IF d <= maxD
       THEN /\ nerr' = init_partition(d)
            /\ first' = NERRS - 1
            /\ pc' = "record"
     ELSE /\ pc' = "sort"
          /\ UNCHANGED <<nerr, first>>
  /\ UNCHANGED <<err, nnt, maxD, errs, cdfSelf, d, probs, comps, ps, cdf, famVars, psVars>>

\* lines 139-156: push the Prob of the current partition, then break or go on
CDFRecord ==
  /\ pc = "record"
  /\ probs' = Append(probs, calc_prob(cdfSelf, errs, nnt, nerr))
  /\ comps' = Append(comps, nerr)
  /\ IF all_in_first(nerr, d)
       THEN /\ d' = d + 1
            /\ pc' = "for_d"
     ELSE /\ pc' = "advance"
          /\ UNCHANGED d
  /\ UNCHANGED <<err, nnt, maxD, errs, cdfSelf, nerr, first, ps, cdf, famVars, psVars>>

\* lines 158-176
CDFAdvance ==
  /\ pc = "advance"
  /\ LET a == advance(nerr, first)
     IN  /\ nerr' = a.nerr
         /\ first' = a.first
         /\ pc' = IF a.failed THEN "failed" ELSE "record"
  /\ UNCHANGED <<err, nnt, maxD, errs, cdfSelf, d, probs, comps, ps, cdf, famVars, psVars>>

\* lines 181-203: sort, accumulate, truncate
CDFFinish ==
  /\ pc = "sort"
  /\ \E sorted \in {sort_probs(probs)} :
       \E allcdf \in {accumulate(sorted, 0, Len(sorted) - 1, Zero)} :
         \E index \in {trunc_index(sorted, min_p_of(errs, maxD))} :
           /\ probs' = sorted
           /\ ps' = [i \in 1..index |-> sorted[i].first]
           /\ cdf' = SubSeq(allcdf, 1, index)
  /\ pc' = "done"
  /\ UNCHANGED <<err, nnt, maxD, errs, cdfSelf, d, nerr, first, comps, famVars, psVars>>

CDFNext == CDFSetup \/ CDFForD \/ CDFRecord \/ CDFAdvance \/ CDFFinish

NntChoices ==
  {v \in [0..3 -> 0..MaxSeqLen] : v[0] + v[1] + v[2] + v[3] <= MaxSeqLen}

CallCDFInit ==
  /\ err \in ErrModels
  /\ nnt \in NntChoices
  /\ maxD \in 0..MaxD
  /\ errs = [k \in 0..(NERRS - 1) |-> Zero]
  /\ cdfSelf = Zero
  /\ d = 0
  /\ nerr = init_partition(0)
  /\ first = 0
  /\ probs = <<>>
  /\ comps = <<>>
  /\ ps = <<>>
  /\ cdf = <<>>
  /\ pc = "entry"

CallCDFIdle ==
  /\ err = ErrNone
  /\ nnt = [i \in 0..3 |-> 0]
  /\ maxD = 0
  /\ errs = [k \in 0..(NERRS - 1) |-> Zero]
  /\ cdfSelf = Zero
  /\ d = 0
  /\ nerr = init_partition(0)
  /\ first = 0
  /\ probs = <<>>
  /\ comps = <<>>
  /\ ps = <<>>
  /\ cdf = <<>>
  /\ pc = "idle"

\* ------------------------------------------------------------ specifications
\* one Fam/Bi pair handed to compute_lambda and get_pA
FamInit == CallFamInit /\ CallCDFIdle /\ CallPSIdle
SpecFam == FamInit /\ [][FamNext]_vars

\* one lookup by get_pS in a table
PSInit == CallFamIdle /\ CallCDFIdle /\ CallPSInit
SpecPS == PSInit /\ [][PSNext]_vars

\* one table build by getCDF
CDFInit == CallFamIdle /\ CallCDFInit /\ CallPSIdle
SpecCDF == CDFInit /\ [][CDFNext]_vars

\* ============================================================ properties

\* ------------------------------------------------------------ get_pA
NSubs(f) == IF f.sub = NULL THEN -1 ELSE f.sub[1].nsubs

\* C1: get_pA returns the result of the first matching row of
\*   reads < 1 -> 1;  reads == 1 -> 1;  sub absent -> 0;  nsubs == 0 -> 1;
\*   lambda == 0 -> 0;  otherwise calc_pA(reads, lambda * bi.reads);
\* in particular reads == 1 gives 1 whatever the substitution list is.
C1_Dispatch ==
  pA # NoValue =>
    /\ fam.reads < 1 => pA = One
    /\ fam.reads = 1 => pA = One
    /\ (fam.reads > 1 /\ fam.sub = NULL) => pA = Zero
    /\ (fam.reads > 1 /\ NSubs(fam) = 0) => pA = One
    /\ (fam.reads > 1 /\ NSubs(fam) > 0 /\ fam.lambda = Zero) => pA = Zero
    /\ (fam.reads > 1 /\ NSubs(fam) > 0 /\ fam.lambda # Zero) =>
         /\ pA.fn = "calc_pA"
         /\ pA.reads = fam.reads
         /\ pA.E_reads = RMul(fam.lambda, FromInt(bi.reads))

C1_Witness ==
  /\ pA = One
  /\ fam.reads = 1
  /\ fam.sub = NULL
  /\ fam.lambda # Zero

\* C2 as stated: with an absent substitution list get_pA returns 0 and
\* compute_lambda returns 0, whatever the read count.
C2_Original ==
  fam.sub = NULL =>
    /\ pA # NoValue => pA = Zero
    /\ lambda # NoValue => lambda = Zero

\* C2 amended: with an absent substitution list compute_lambda returns 0,
\* and get_pA returns 0 when fam.reads >= 2 and 1 when fam.reads <= 1.
C2_Amended ==
  fam.sub = NULL =>
    /\ (pA # NoValue /\ fam.reads >= 2) => pA = Zero
    /\ (pA # NoValue /\ fam.reads <= 1) => pA = One
    /\ lambda # NoValue => lambda = Zero

C2_Witness ==
  /\ fam.sub = NULL
  /\ fam.reads >= 2
  /\ fam.lambda # Zero
  /\ pA = Zero
  /\ lambda = Zero

\* ------------------------------------------------------------ compute_lambda
RECURSIVE RatioProduct(_, _, _)
RatioProduct(sub, tt, i) ==
  IF i > sub.nsubs THEN One
  ELSE RMul(RDiv(tt[sub.nt0[i] - 1][sub.nt1[i] - 1], tt[sub.nt0[i] - 1][sub.nt0[i] - 1]),
            RatioProduct(sub, tt, i + 1))

\* C3: compute_lambda returns 0 for an absent list, self for an empty one,
\* and otherwise self times the product of t[origin][dest]/t[origin][origin]
\* over the list, unclamped also when that lies outside [0, 1] or is 0.
C3_LambdaProduct ==
  lambda # NoValue =>
    /\ fam.sub = NULL => lambda = Zero
    /\ NSubs(fam) = 0 => lambda = self
    /\ NSubs(fam) > 0 => lambda = RMul(self, RatioProduct(fam.sub[1], t, 1))

C3_Witness ==
  /\ lambda # NoValue
  /\ NSubs(fam) = 2
  /\ RLt(One, lambda)
  /\ "ERROR: OVERUNDERFLOW OF LAMBDA" \in out

\* ------------------------------------------------------------ get_pS
Bracket ==
  /\ ifirst < ilast
  /\ RLt(flam, At(b.lams, ifirst))
  /\ RLe(At(b.lams, ilast), flam)

\* C4: on a non-empty table with non-increasing ps, get_pS returns 1 when
\* lambda >= ps[0], 1 - cdf[last] when lambda <= ps[last], and otherwise
\* 1 - cdf[ifirst] with ilast - ifirst = 1; ps[ifirst] > lambda >= ps[ilast]
\* holds at every iteration of the search.
C4_Lookup ==
  b.nlam >= 1 =>
    /\ pspc = "while" => Bracket
    /\ pspc = "done" =>
         IF RLe(At(b.lams, 0), flam) THEN pS = One
         ELSE IF RLe(flam, At(b.lams, b.nlam - 1))
           THEN pS = RSub(One, At(b.cdf, b.nlam - 1))
         ELSE /\ Bracket
              /\ ilast - ifirst = 1
              /\ pS = RSub(One, At(b.cdf, ifirst))

C4_Witness ==
  /\ pspc = "done"
  /\ b.nlam = 4
  /\ ifirst = 1
  /\ ilast = 2
  /\ flam = At(b.lams, 2)
  /\ At(b.lams, 2) # At(b.lams, 3)
  /\ pS = RSub(One, At(b.cdf, 1))

\* ------------------------------------------------------------ getCDF table
\* C5: in the table getCDF returns, ps and cdf have the same length, ps is
\* non-increasing, cdf is non-decreasing and cdf[last] <= 1.
C5_TableShape ==
  pc = "done" =>
    /\ Len(ps) = Len(cdf)
    /\ \A i \in 1..(Len(ps) - 1) : RLe(ps[i + 1], ps[i])
    /\ \A i \in 1..(Len(cdf) - 1) : RLe(cdf[i], cdf[i + 1])
    /\ Len(cdf) > 0 => RLe(cdf[Len(cdf)], One)

C5_Witness ==
  /\ pc = "done"
  /\ Len(ps) >= 3
  /\ ps[1] # ps[Len(ps)]
  /\ cdf[1] # cdf[Len(cdf)]
  /\ Len(ps) < Len(probs)

\* whether probability y is related to x: "le" y <= x, "ge" y >= x, "gt" y > x
Related(rel, y, x) ==
  IF rel = "le" THEN RLe(y, x)
  ELSE IF rel = "ge" THEN RLe(x, y)
  ELSE RLt(x, y)

\* mass (probability x multiplicity) of the recorded configurations lo..hi
\* whose probability is related to x
RECURSIVE MassRange(_, _, _, _, _)
MassRange(rel, pr, x, lo, hi) ==
  IF lo > hi THEN Zero
  ELSE IF lo = hi
    THEN IF Related(rel, pr[lo].first, x) THEN RMul(pr[lo].first, pr[lo].second) ELSE Zero
  ELSE LET mid == (lo + hi) \div 2
       IN  RAdd(MassRange(rel, pr, x, lo, mid), MassRange(rel, pr, x, mid + 1, hi))

Mass(rel, pr, x) == MassRange(rel, pr, x, 1, Len(pr))

LastOfRun(i) == i = Len(ps) \/ ps[i + 1] # ps[i]

\* C6 as stated: cdf[i] is the mass of the configurations with probability
\* <= ps[i].
C6_Original ==
  pc = "done" =>
    \A i \in 1..Len(ps) : cdf[i] = Mass("le", probs, ps[i])

\* C6 amended: cdf[i] is the mass of the entries at positions 0..i of the
\* decreasing order: at least the mass of the configurations with
\* probability > ps[i], at most the mass of those with probability >= ps[i],
\* and equal to the latter at the last index of a run of equal ps.
C6_Amended ==
  pc = "done" =>
    \A v \in {ps[i] : i \in 1..Len(ps)} :
      \E above \in {Mass("gt", probs, v)} :
        \E atleast \in {Mass("ge", probs, v)} :
          \A i \in 1..Len(ps) :
            ps[i] = v =>
              /\ RLe(above, cdf[i])
              /\ RLe(cdf[i], atleast)
              /\ LastOfRun(i) => cdf[i] = atleast

C6_Witness ==
  /\ pc = "done"
  /\ Len(ps) >= 3
  /\ \E i \in 1..(Len(ps) - 1) : ps[i] = ps[i + 1] /\ cdf[i] # cdf[i + 1]
  /\ \E i \in 1..(Len(ps) - 1) : ps[i] # ps[i + 1] /\ cdf[i] # cdf[i + 1]

\* ------------------------------------------------------------ enumeration
SlotSum(ne) ==
  ne[1] + ne[2] + ne[3] + ne[4] + ne[5] + ne[6]
  + ne[7] + ne[8] + ne[9] + ne[10] + ne[11] + ne[12]

IsComposition(ne, dd) ==
  /\ \A i \in 0..(NERRS - 1) : At(ne, i) >= 0
  /\ SlotSum(ne) = dd

AllInFirst(dd) == <<dd, 0, 0, 0, 0, 0, 0, 0, 0, 0, 0, 0>>

\* C(dd + 11, 11), the number of compositions of dd into 12 parts
RECURSIVE NumCompositions(_)
NumCompositions(dd) ==
  IF dd = 0 THEN 1 ELSE (NumCompositions(dd - 1) * (dd + NERRS - 1)) \div dd

RECURSIVE SumCompositions(_)
SumCompositions(dd) ==
  IF dd < 0 THEN 0 ELSE NumCompositions(dd) + SumCompositions(dd - 1)

NoDuplicates(seq) == Cardinality({seq[k] : k \in 1..Len(seq)}) = Len(seq)

\* C7: for every d in 0..maxD the loop records every composition of d into
\* 12 parts exactly once and stops exactly when the one with all d in
\* slot 0 has been recorded; sum over d of C(d+11,11) pairs are recorded.
C7_Enumeration ==
  /\ pc \in {"record", "advance"} => IsComposition(nerr, d)
  /\ pc = "advance" => nerr # AllInFirst(d)
  /\ (pc = "for_d" /\ d > 0) =>
       /\ comps[Len(comps)] = AllInFirst(d - 1)
       /\ Len(comps) = SumCompositions(d - 1)
       /\ NoDuplicates(comps)
       /\ \A k \in 1..Len(comps) : SlotSum(comps[k]) <= d - 1
  /\ pc \in {"sort", "done"} => Len(probs) = SumCompositions(maxD)

C7_Witness ==
  /\ pc = "sort"
  /\ maxD = 2
  /\ Len(probs) = 91
  /\ comps[Len(comps)] = AllInFirst(2)

\* C8: the partition iteration never takes its error branch.
C8_NoIterationFailure == pc # "failed"

C8_Witness ==
  /\ pc = "record"
  /\ d = 2
  /\ first = 5
  /\ At(nerr, 5) = 2

RECURSIVE Fact(_)
Fact(k) == IF k <= 0 THEN 1 ELSE k * Fact(k - 1)

TypeCount(ne, i) == At(ne, 3 * i) + At(ne, 3 * i + 1) + At(ne, 3 * i + 2)

TypeAssignments(ne, nn, i) ==
  IF TypeCount(ne, i) > nn[i] THEN 0
  ELSE Fact(nn[i]) \div
         (Fact(At(ne, 3 * i)) * Fact(At(ne, 3 * i + 1)) * Fact(At(ne, 3 * i + 2))
            * Fact(nn[i] - TypeCount(ne, i)))

Assignments(ne, nn) ==
  TypeAssignments(ne, nn, 0) * TypeAssignments(ne, nn, 1)
    * TypeAssignments(ne, nn, 2) * TypeAssignments(ne, nn, 3)

\* C9: the multiplicity recorded for a composition is the number of labeled
\* position assignments, the product over the origin types of
\* nnt! / (c1! c2! c3! (nnt - c1 - c2 - c3)!), and 0 when a type's counts
\* exceed its nnt.
C9_Multiplicity ==
  pc = "sort" =>
    \A k \in 1..Len(probs) : probs[k].second = FromInt(Assignments(comps[k], nnt))

C9_Witness ==
  /\ pc = "sort"
  /\ \E k \in 1..Len(probs) : probs[k].second = FromInt(2)
  /\ \E k \in 1..Len(probs) :
       /\ probs[k].second = Zero
       /\ \E i \in 0..3 : nnt[i] > 0 /\ TypeCount(comps[k], i) > nnt[i]

\* C10: the truncated table getCDF returns has at least one entry, so that
\* get_pS reads lams and cdf only inside 0..nlam-1.
C10_TableNotEmpty == pc = "done" => Len(ps) >= 1

====
